---- MODULE Spec2Model ----
(***************************************************************************)
(* A model of two components of the repository:                            *)
(*                                                                         *)
(*   - gather_positions (bert/model/ipu_pretraining_model.py), the flat-   *)
(*     index gather of the hidden vectors at the masked positions;         *)
(*   - LARSIpuOptimizer (image_classification/optimizers/                  *)
(*     lars_optimizer.py): construction, slot creation, the dense update,  *)
(*     the sparse update and the configuration export.                     *)
(*                                                                         *)
(* Numbers are exact rationals <<numerator, denominator>> in lowest terms  *)
(* with a positive denominator.  Floating-point rounding is not modelled:  *)
(* a cast between dtypes keeps the value and only the dtype tag changes.   *)
(* A tensor is a sequence of rationals (the optimizer) or of integers (the *)
(* gather); a name or a regular expression is a sequence of characters.    *)
(***************************************************************************)
EXTENDS Integers, Sequences, FiniteSets, TLC

(***************************************************************************)
(* Exact rational arithmetic.                                              *)
(***************************************************************************)
Abs(n) == IF n < 0 THEN -n ELSE n

RECURSIVE GCD(_, _)
GCD(a, b) == IF b = 0 THEN a ELSE GCD(b, a % b)

Reduce(n, d) ==
    LET g == GCD(Abs(n), Abs(d))
        s == IF d < 0 THEN -1 ELSE 1
    IN  <<(s * n) \div g, Abs(d) \div g>>

Q(n, d) == Reduce(n, d)

Zero == <<0, 1>>

One == <<1, 1>>

Neg(a) == <<-a[1], a[2]>>

Add(a, b) ==
    LET g == GCD(a[2], b[2])
    IN  Reduce(a[1] * (b[2] \div g) + b[1] * (a[2] \div g), (a[2] \div g) * b[2])

Sub(a, b) == Add(a, Neg(b))

Mul(a, b) ==
    LET g1 == GCD(Abs(a[1]), b[2])
        g2 == GCD(Abs(b[1]), a[2])
    IN  Reduce((a[1] \div g1) * (b[1] \div g2), (a[2] \div g2) * (b[2] \div g1))

Inv(a) == IF a[1] < 0 THEN <<-a[2], -a[1]>> ELSE <<a[2], a[1]>>

Div(a, b) == Mul(a, Inv(b))

Less(a, b) == Sub(a, b)[1] < 0

Greater(a, b) == Less(b, a)

\* The integer square root, by bisection: the largest r with r * r <= n.
RECURSIVE Bisect(_, _, _)
Bisect(n, lo, hi) ==
    IF lo >= hi THEN lo
    ELSE LET mid == (lo + hi + 1) \div 2
         IN  IF mid * mid <= n THEN Bisect(n, mid, hi) ELSE Bisect(n, lo, mid - 1)

ISqrt(n) == Bisect(n, 0, IF n < 46340 THEN n ELSE 46340)

\* The square root of a rational whose numerator and denominator are squares.
SqrtQ(a) == <<ISqrt(a[1]), ISqrt(a[2])>>

IsSquareQ(a) ==
    /\ a[1] >= 0
    /\ ISqrt(a[1]) * ISqrt(a[1]) = a[1]
    /\ ISqrt(a[2]) * ISqrt(a[2]) = a[2]

(***************************************************************************)
(* Tensors of rationals, elementwise.                                      *)
(***************************************************************************)
TAdd(x, y) == [i \in DOMAIN x |-> Add(x[i], y[i])]

TSub(x, y) == [i \in DOMAIN x |-> Sub(x[i], y[i])]

TScale(c, x) == [i \in DOMAIN x |-> Mul(c, x[i])]

RECURSIVE SumSquares(_)
SumSquares(x) ==
    IF x = <<>> THEN Zero ELSE Add(Mul(Head(x), Head(x)), SumSquares(Tail(x)))

\* linalg_ops.norm(x, ord=2): the Euclidean norm.
L2Norm(x) == SqrtQ(SumSquares(x))

(***************************************************************************)
(* Names and regular expressions.  The patterns modelled are the subset of *)
(* Python's re syntax made of literal characters, the wildcard ".", a      *)
(* leading "^" and a trailing "$"; a pattern with an unbalanced            *)
(* parenthesis or a leading "*" does not compile and re raises re.error.   *)
(***************************************************************************)
Digits == {"0", "1", "2", "3", "4", "5", "6", "7", "8", "9"}

Count(s, c) == Cardinality({i \in DOMAIN s : s[i] = c})

Malformed(p) ==
    \/ Count(p, "(") # Count(p, ")")
    \/ (p # <<>> /\ p[1] = "*")

\* re.search(p, s) is not None, for a pattern p that compiles.
re_search(p, s) ==
    LET anchS == p # <<>> /\ p[1] = "^"
        q     == IF anchS THEN Tail(p) ELSE p
        anchE == q # <<>> /\ q[Len(q)] = "$"
        body  == IF anchE THEN SubSeq(q, 1, Len(q) - 1) ELSE q
    IN  \E i \in 1..(Len(s) + 1) :
            /\ anchS => i = 1
            /\ i + Len(body) - 1 <= Len(s)
            /\ anchE => i + Len(body) - 1 = Len(s)
            /\ \A j \in DOMAIN body : body[j] = "." \/ body[j] = s[i + j - 1]

\* re.match("^(.*):\\d+$", param_name): strip a trailing ":<digits>".
_get_variable_name(param_name) ==
    LET cut == {k \in DOMAIN param_name :
                   /\ param_name[k] = ":"
                   /\ k < Len(param_name)
                   /\ \A i \in (k + 1)..Len(param_name) : param_name[i] \in Digits}
    IN  IF cut # {}
        THEN SubSeq(param_name, 1, (CHOOSE k \in cut : TRUE) - 1)
        ELSE param_name

\* The loop "for r in patterns: if re.search(r, name) is not None: return
\* False", then "return True"; "re.error" when a pattern reached by the loop
\* does not compile.
RECURSIVE NoneMatches(_, _)
NoneMatches(patterns, param_name) ==
    IF patterns = <<>> THEN "True"
    ELSE IF Malformed(Head(patterns)) THEN "re.error"
    ELSE IF re_search(Head(patterns), param_name) THEN "False"
    ELSE NoneMatches(Tail(patterns), param_name)

\* A list argument that may be None.
NoneList == [is_none |-> TRUE, items |-> <<>>]

List(xs) == [is_none |-> FALSE, items |-> xs]

Truthy(l) == ~l.is_none /\ l.items # <<>>

\* A variant that forgets the exclusion list.
_do_use_weight_decay_always(self, param_name) == "True"

_do_use_weight_decay(self, param_name) ==
    IF Truthy(self.exclude_from_weight_decay)
    THEN NoneMatches(self.exclude_from_weight_decay.items, param_name)
    ELSE "True"

_do_layer_adaptation(self, param_name) ==
    IF Truthy(self.exclude_from_layer_adaptation)
    THEN NoneMatches(self.exclude_from_layer_adaptation.items, param_name)
    ELSE "True"

(***************************************************************************)
(* LARSIpuOptimizer.                                                       *)
(***************************************************************************)
\* tf.keras.backend.epsilon(), the fuzz factor of Keras: 1e-7.
KerasEpsilon == Q(1, 10000000)

\* A keyword argument that may be absent.
Absent == [present |-> FALSE, value |-> Zero]

Given(x) == [present |-> TRUE, value |-> x]

\* The keyword defaults of __init__.
DefaultArgs ==
    [learning_rate                 |-> Q(1, 1000),
     momentum                      |-> Q(9, 10),
     weight_decay                  |-> Q(1, 10000),
     eeta                          |-> Q(1, 1000),
     epsilon                       |-> Zero,
     name                          |-> "LARSOptimizer",
     exclude_from_weight_decay     |-> NoneList,
     exclude_from_layer_adaptation |-> NoneList,
     m_dtype                       |-> "None",
     optimizer_compute_precisions  |-> <<"float32", "float32">>,
     use_nesterov                  |-> FALSE,
     lr                            |-> Absent,
     decay                         |-> Zero]

\* "epsilon or tf.keras.backend.epsilon()": a zero epsilon is falsy.
EpsilonOrKeras(epsilon) == IF epsilon = Zero THEN KerasEpsilon ELSE epsilon

\* __init__: the optimizer it builds, or the error it raises.
__init__(args) ==
    LET self ==
            [name                          |-> args.name,
             eeta                          |-> args.eeta,
             weight_decay                  |-> args.weight_decay,
             learning_rate                 |-> IF args.lr.present THEN args.lr.value
                                               ELSE args.learning_rate,
             decay                         |-> args.decay,
             momentum                      |-> args.momentum,
             epsilon                       |-> EpsilonOrKeras(args.epsilon),
             exclude_from_weight_decay     |-> args.exclude_from_weight_decay,
             exclude_from_layer_adaptation |-> args.exclude_from_layer_adaptation,
             use_nesterov                  |-> args.use_nesterov,
             m_dtype                       |-> args.m_dtype,
             opt_dtypes                    |-> args.optimizer_compute_precisions]
    IN  IF Len(self.opt_dtypes) # 2
        THEN [raised |-> "ValueError", self |-> self]
        ELSE [raised |-> "none", self |-> self]

\* _prepare_local: the coefficients of one step, the same for every variable.
\* lr_t is the base class's decayed learning rate, the learning rate itself
\* while decay is zero.
_prepare_local(self) ==
    [lr_t         |-> self.learning_rate,
     eeta         |-> self.eeta,
     weight_decay |-> self.weight_decay,
     epsilon      |-> self.epsilon,
     momentum     |-> self.momentum]

update_coefficients(self) == _prepare_local(self)

\* A variant that takes the gradient norm after weight decay is folded in.
compute_trust_ratio_norm_after_decay(self, grad, var, eeta, epsilon, weight_decay) ==
    LET var_name == _get_variable_name(var.name)
        adapt    == _do_layer_adaptation(self, var_name)
        w_norm   == L2Norm(var.value)
        decays   == _do_use_weight_decay(self, var_name)
        grad2    == IF decays = "True" THEN TAdd(grad, TScale(weight_decay, var.value))
                    ELSE grad
        g_norm   == L2Norm(grad2)
        wd       == IF decays = "True" THEN weight_decay ELSE Zero
        ratio    == IF Greater(w_norm, Zero)
                    THEN IF Greater(g_norm, Zero)
                         THEN Div(Mul(eeta, w_norm),
                                  Add(Add(g_norm, Mul(wd, w_norm)), epsilon))
                         ELSE One
                    ELSE One
    IN  IF adapt = "re.error" THEN [raised |-> "re.error", trust_ratio |-> One, grad |-> grad]
        ELSE IF adapt = "False" THEN [raised |-> "none", trust_ratio |-> One, grad |-> grad]
        ELSE IF decays = "re.error"
             THEN [raised |-> "re.error", trust_ratio |-> One, grad |-> grad]
        ELSE [raised |-> "none", trust_ratio |-> ratio, grad |-> grad2]

\* A variant whose numerator holds the gradient norm.
compute_trust_ratio_swapped_norms(self, grad, var, eeta, epsilon, weight_decay) ==
    LET var_name == _get_variable_name(var.name)
        adapt    == _do_layer_adaptation(self, var_name)
        w_norm   == L2Norm(var.value)
        g_norm   == L2Norm(grad)
        decays   == _do_use_weight_decay(self, var_name)
        grad2    == IF decays = "True" THEN TAdd(grad, TScale(weight_decay, var.value))
                    ELSE grad
        wd       == IF decays = "True" THEN weight_decay ELSE Zero
        ratio    == IF Greater(w_norm, Zero)
                    THEN IF Greater(g_norm, Zero)
                         THEN Div(Mul(eeta, g_norm),
                                  Add(Add(g_norm, Mul(wd, w_norm)), epsilon))
                         ELSE One
                    ELSE One
    IN  IF adapt = "re.error" THEN [raised |-> "re.error", trust_ratio |-> One, grad |-> grad]
        ELSE IF adapt = "False" THEN [raised |-> "none", trust_ratio |-> One, grad |-> grad]
        ELSE IF decays = "re.error"
             THEN [raised |-> "re.error", trust_ratio |-> One, grad |-> grad]
        ELSE [raised |-> "none", trust_ratio |-> ratio, grad |-> grad2]

\* compute_trust_ratio: var is [name, value]; the result is the trust ratio
\* and the gradient, or the error raised by the pattern matching.
compute_trust_ratio(self, grad, var, eeta, epsilon, weight_decay) ==
    LET var_name == _get_variable_name(var.name)
        adapt    == _do_layer_adaptation(self, var_name)
        w_norm   == L2Norm(var.value)
        g_norm   == L2Norm(grad)
        decays   == _do_use_weight_decay(self, var_name)
        grad2    == IF decays = "True" THEN TAdd(grad, TScale(weight_decay, var.value))
                    ELSE grad
        wd       == IF decays = "True" THEN weight_decay ELSE Zero
        ratio    == IF Greater(w_norm, Zero)
                    THEN IF Greater(g_norm, Zero)
                         THEN Div(Mul(eeta, w_norm),
                                  Add(Add(g_norm, Mul(wd, w_norm)), epsilon))
                         ELSE One
                    ELSE One
    IN  IF adapt = "re.error" THEN [raised |-> "re.error", trust_ratio |-> One, grad |-> grad]
        ELSE IF adapt = "False" THEN [raised |-> "none", trust_ratio |-> One, grad |-> grad]
        ELSE IF decays = "re.error"
             THEN [raised |-> "re.error", trust_ratio |-> One, grad |-> grad]
        ELSE [raised |-> "none", trust_ratio |-> ratio, grad |-> grad2]

\* training_ops.resource_apply_momentum: accum <- accum * momentum + grad, then
\* var <- var - lr * accum, or with use_nesterov
\* var <- var - (grad * lr + accum * momentum * lr).
resource_apply_momentum(var, accum, lr, grad, momentum, use_nesterov) ==
    LET accum2 == TAdd(TScale(momentum, accum), grad)
    IN  [accum |-> accum2,
         var   |-> IF use_nesterov
                   THEN TSub(var, TAdd(TScale(lr, grad), TScale(Mul(momentum, lr), accum2)))
                   ELSE TSub(var, TScale(lr, accum2))]

\* A variant that leaves the trust ratio out of the step size.
_resource_apply_dense_unscaled(self, grad, var, momentum_var) ==
    LET coefficients == update_coefficients(self)
        tr           == compute_trust_ratio(self, grad, var, coefficients.eeta,
                                            coefficients.epsilon,
                                            coefficients.weight_decay)
        scaled_lr    == coefficients.lr_t
        applied      == resource_apply_momentum(var.value, momentum_var, One,
                                                TScale(scaled_lr, tr.grad),
                                                coefficients.momentum,
                                                self.use_nesterov)
    IN  IF tr.raised # "none"
        THEN [raised |-> tr.raised, var |-> var.value, accum |-> momentum_var,
              trust_ratio |-> tr.trust_ratio, grad |-> tr.grad]
        ELSE [raised |-> "none", var |-> applied.var, accum |-> applied.accum,
              trust_ratio |-> tr.trust_ratio, grad |-> tr.grad]

\* A variant that also hands the learning rate to the momentum primitive.
_resource_apply_dense_lr_twice(self, grad, var, momentum_var) ==
    LET coefficients == update_coefficients(self)
        tr           == compute_trust_ratio(self, grad, var, coefficients.eeta,
                                            coefficients.epsilon,
                                            coefficients.weight_decay)
        scaled_lr    == Mul(coefficients.lr_t, tr.trust_ratio)
        applied      == resource_apply_momentum(var.value, momentum_var, coefficients.lr_t,
                                                TScale(scaled_lr, tr.grad),
                                                coefficients.momentum,
                                                self.use_nesterov)
    IN  IF tr.raised # "none"
        THEN [raised |-> tr.raised, var |-> var.value, accum |-> momentum_var,
              trust_ratio |-> tr.trust_ratio, grad |-> tr.grad]
        ELSE [raised |-> "none", var |-> applied.var, accum |-> applied.accum,
              trust_ratio |-> tr.trust_ratio, grad |-> tr.grad]

\* _resource_apply_dense: var is [name, value], momentum_var its slot's value.
_resource_apply_dense(self, grad, var, momentum_var) ==
    LET coefficients == update_coefficients(self)
        tr           == compute_trust_ratio(self, grad, var, coefficients.eeta,
                                            coefficients.epsilon,
                                            coefficients.weight_decay)
        scaled_lr    == Mul(coefficients.lr_t, tr.trust_ratio)
        applied      == resource_apply_momentum(var.value, momentum_var, One,
                                                TScale(scaled_lr, tr.grad),
                                                coefficients.momentum,
                                                self.use_nesterov)
    IN  IF tr.raised # "none"
        THEN [raised |-> tr.raised, var |-> var.value, accum |-> momentum_var,
              trust_ratio |-> tr.trust_ratio, grad |-> tr.grad]
        ELSE [raised |-> "none", var |-> applied.var, accum |-> applied.accum,
              trust_ratio |-> tr.trust_ratio, grad |-> tr.grad]

\* get_config: the base class's export (the name) and this class's entries.
get_config(self) ==
    [name          |-> self.name,
     learning_rate |-> self.learning_rate,
     weight_decay  |-> self.weight_decay,
     decay         |-> self.decay,
     momentum      |-> self.momentum,
     eeta          |-> self.eeta,
     epsilon       |-> self.epsilon,
     m_dtype       |-> self.m_dtype]

\* from_config: cls(**config), every argument the export does not hold taking
\* its keyword default.
from_config(config) ==
    __init__([DefaultArgs EXCEPT !.name          = config.name,
                                 !.learning_rate = config.learning_rate,
                                 !.weight_decay  = config.weight_decay,
                                 !.decay         = config.decay,
                                 !.momentum      = config.momentum,
                                 !.eeta          = config.eeta,
                                 !.epsilon       = config.epsilon,
                                 !.m_dtype       = config.m_dtype])

\* A variant that applies the dense rule to a sparse gradient.
_resource_apply_sparse_as_dense(self, grad, var, momentum_var) ==
    LET r == _resource_apply_dense(self, grad, var, momentum_var)
    IN  [raised |-> r.raised, var |-> r.var, accum |-> r.accum]

\* The base class's _resource_apply_sparse, which LARSIpuOptimizer does not
\* override ("Update for Sparse tensors is not implemented"): it raises and
\* touches neither the variable nor its slot.
_resource_apply_sparse(self, grad, var, momentum_var) ==
    [raised |-> "NotImplementedError", var |-> var.value, accum |-> momentum_var]

\* _create_slots: add_slot_with_dtype(var, "momentum_var", m_dtype) for every
\* variable of var_list; a new slot is zero, shaped like the variable, of dtype
\* m_dtype (the variable's when m_dtype is None); an existing slot is kept.
_create_slots(self, slots, vars, var_list) ==
    [n \in DOMAIN slots |->
        IF n \in var_list /\ ~slots[n].created
        THEN [created |-> TRUE,
              value   |-> [i \in DOMAIN vars[n] |-> Zero],
              dtype   |-> IF self.m_dtype = "None" THEN "float32" ELSE self.m_dtype]
        ELSE slots[n]]

(***************************************************************************)
(* The bounds of the model and the inputs it draws.                        *)
(***************************************************************************)
\* The dense steps of one run.
MaxSteps == 3

\* A dense step is taken on a variable and an accumulator whose entries have
\* a denominator of at most DenLimit and a numerator of at most NumLimit in
\* absolute value, and whose denominators multiplied by epsilon's are at most
\* PrecisionLimit, so that the exact arithmetic of one step stays within
\* 32-bit integers; the variable's norm is a rational.
DenLimit == 16

NumLimit == 64

PrecisionLimit == 10000000

Small(t) == \A i \in DOMAIN t : t[i][2] <= DenLimit /\ Abs(t[i][1]) <= NumLimit

Representable(self, v, accum) ==
    /\ Small(v)
    /\ Small(accum)
    /\ IsSquareQ(SumSquares(v))
    /\ \A i \in DOMAIN v : v[i][2] * accum[i][2] * self.epsilon[2] <= PrecisionLimit

VarNames == {<<"w", ":", "0">>, <<"b", "n", ":", "0">>}

W == <<"w", ":", "0">>

BN == <<"b", "n", ":", "0">>

\* The values the variables start from: a scalar, a zero and a vector.
InitVars ==
    {(W :> <<Q(4, 1)>>) @@ (BN :> <<Zero>>),
     (W :> <<Q(3, 1), Q(4, 1)>>) @@ (BN :> <<Q(4, 1)>>),
     (W :> <<Zero>>) @@ (BN :> <<Q(3, 1), Q(4, 1)>>)}

\* The gradients drawn for a variable: of its shape, and for a vector
\* collinear with it, which keeps every norm rational.
Grads(value) ==
    IF Len(value) = 1 THEN {<<Zero>>, <<One>>}
    ELSE {<<Zero, Zero>>, <<Q(3, 1), Q(4, 1)>>}

\* The pairs of exclusion lists drawn: weight decay, layer adaptation.
Exclusions ==
    {<<List(<<<<"b">>>>), NoneList>>,
     <<List(<<<<":", "0">>>>), NoneList>>,
     <<List(<<<<"(">>>>), NoneList>>,
     <<List(<<>>), List(<<<<"^", "w", "$">>>>)>>,
     <<List(<<<<"b">>>>), List(<<<<".", "n">>>>)>>,
     <<NoneList, List(<<<<"b", "n">>, <<"(">>>>)>>,
     <<List(<<<<"(">>>>), List(<<<<"^", "w", "$">>>>)>>}

ConstructorArgs ==
    {[DefaultArgs EXCEPT !.learning_rate = Q(1, 10),
                         !.eeta = One,
                         !.momentum = m,
                         !.use_nesterov = nes,
                         !.weight_decay = we[1],
                         !.epsilon = we[2]] :
        m \in {Zero, Q(1, 2)}, nes \in BOOLEAN,
        we \in {<<Zero, Zero>>, <<Q(1, 2), One>>, <<Q(1, 2), Q(-3, 2)>>}}
    \cup
    {[DefaultArgs EXCEPT !.learning_rate = Q(1, 10),
                         !.eeta = One,
                         !.momentum = Q(1, 2),
                         !.weight_decay = Q(1, 2),
                         !.epsilon = One,
                         !.exclude_from_weight_decay = x[1],
                         !.exclude_from_layer_adaptation = x[2]] :
        x \in Exclusions}
    \cup
    {[DefaultArgs EXCEPT !.lr = Given(Q(1, 2)), !.eeta = One, !.epsilon = One,
                         !.m_dtype = "float16"],
     [DefaultArgs EXCEPT !.learning_rate = Q(1, 10), !.eeta = One,
                         !.optimizer_compute_precisions = <<"float32">>],
     [DefaultArgs EXCEPT !.learning_rate = Q(1, 10), !.eeta = One,
                         !.optimizer_compute_precisions =
                             <<"float16", "float32", "float32">>]}

(***************************************************************************)
(* gather_positions.  A tensor is [shape, data], data being the entries in *)
(* row-major order.                                                        *)
(***************************************************************************)
RECURSIVE Product(_)
Product(shape) == IF shape = <<>> THEN 1 ELSE Head(shape) * Product(Tail(shape))

\* tf.reshape(t, shape): the same entries under another shape.
reshape(t, shape) == [shape |-> shape, data |-> t.data]

\* tf.range(0, limit) * factor, reshaped to a column.
flat_offsets_of(micro_batch_size, seq_length) ==
    reshape([shape |-> <<micro_batch_size>>,
             data  |-> [b \in 1..micro_batch_size |-> (b - 1) * seq_length]],
            <<micro_batch_size, 1>>)

\* positions + flat_offsets: the column is broadcast along the rows.
broadcast_add(positions, column) ==
    [shape |-> positions.shape,
     data  |-> [k \in 1..Len(positions.data) |->
                   positions.data[k] + column.data[((k - 1) \div positions.shape[2]) + 1]]]

\* embedding_lookup(table, ids): row ids[k] of the table, for every k.
embedding_lookup(table, ids) ==
    LET width == table.shape[2]
    IN  [shape |-> <<Len(ids.data), width>>,
         data  |-> [k \in 1..(Len(ids.data) * width) |->
                       table.data[ids.data[((k - 1) \div width) + 1] * width
                                  + ((k - 1) % width) + 1]]]

\* A variant that adds no batch offset to the positions.
gather_positions_without_offsets(inputs, positions) ==
    LET micro_batch_size  == inputs.shape[1]
        seq_length        == inputs.shape[2]
        hidden_size       == inputs.shape[3]
        num_masked_tokens == positions.shape[2]
        flat_offsets      == flat_offsets_of(micro_batch_size, 0)
        flat_positions    == reshape(broadcast_add(positions, flat_offsets),
                                     <<micro_batch_size * num_masked_tokens>>)
        flat_sequence     == reshape(inputs, <<micro_batch_size * seq_length, hidden_size>>)
        output_tensor     == embedding_lookup(flat_sequence, flat_positions)
    IN  reshape(output_tensor, <<micro_batch_size, num_masked_tokens, hidden_size>>)

gather_positions(inputs, positions) ==
    LET micro_batch_size  == inputs.shape[1]
        seq_length        == inputs.shape[2]
        hidden_size       == inputs.shape[3]
        num_masked_tokens == positions.shape[2]
        flat_offsets      == flat_offsets_of(micro_batch_size, seq_length)
        flat_positions    == reshape(broadcast_add(positions, flat_offsets),
                                     <<micro_batch_size * num_masked_tokens>>)
        flat_sequence     == reshape(inputs, <<micro_batch_size * seq_length, hidden_size>>)
        output_tensor     == embedding_lookup(flat_sequence, flat_positions)
    IN  reshape(output_tensor, <<micro_batch_size, num_masked_tokens, hidden_size>>)

\* The shapes drawn: at most MaxLookups positions in a batch, sequences of at
\* most MaxSeqLength tokens, hidden vectors of width 1 or MaxHidden.
MaxLookups == 4

MaxSeqLength == 4

MaxHidden == 3

\* The hidden tensor of a shape whose entries are 0, 1, 2, ... in order.
Sequential(shape) == [shape |-> shape, data |-> [k \in 1..Product(shape) |-> k - 1]]

VARIABLES
    hidden,     \* the encoder's last hidden state, of shape (B, S, H)
    positions,  \* the masked positions, of shape (B, M), each in [0, S)
    gathered    \* <<>>, then <<the tensor GatherSubsetOutput returned>>

gvars == <<hidden, positions, gathered>>

(***************************************************************************)
(* The optimizer's life: construction, slot creation, dense and sparse     *)
(* steps, configuration export and reconstruction.                         *)
(***************************************************************************)
VARIABLES
    optimizer,  \* <<>> before construction, then <<self>>
    var,        \* the value of every trainable variable
    slot,       \* the momentum_var slot of every variable
    raised,     \* the error the last call raised, or "none"
    last,       \* the last dense step: its inputs, its error and its outputs
    steps,      \* the dense steps taken
    exported,   \* <<>>, then <<the configuration export>>
    restored    \* <<>>, then <<the optimizer rebuilt from the export>>

ovars == <<optimizer, var, slot, raised, last, steps, exported, restored>>

vars == <<optimizer, var, slot, raised, last, steps, exported, restored,
          hidden, positions, gathered>>

NoSlot == [created |-> FALSE, value |-> <<>>, dtype |-> "None"]

NoStep ==
    [name |-> <<>>, grad |-> <<>>, var |-> <<>>, accum |-> <<>>,
     raised |-> "none", trust_ratio |-> One, grad_out |-> <<>>]

Init ==
    /\ optimizer = <<>>
    /\ var \in InitVars
    /\ slot = [n \in VarNames |-> NoSlot]
    /\ raised = "none"
    /\ last = NoStep
    /\ steps = 0
    /\ exported = <<>>
    /\ restored = <<>>
    /\ hidden = Sequential(<<1, 1, 1>>)
    /\ positions = [shape |-> <<1, 1>>, data |-> <<0>>]
    /\ gathered = <<>>

Construct ==
    /\ optimizer = <<>>
    /\ \E args \in ConstructorArgs :
          LET r == __init__(args)
          IN  /\ optimizer' = IF r.raised = "none" THEN <<r.self>> ELSE <<>>
              /\ raised' = r.raised
    /\ UNCHANGED <<var, slot, last, steps, exported, restored>>
    /\ UNCHANGED gvars

\* The slots are created for the whole variable list, as apply_gradients does.
CreateSlots ==
    /\ optimizer # <<>>
    /\ slot' = _create_slots(optimizer[1], slot, var, VarNames)
    /\ raised' = "none"
    /\ UNCHANGED <<optimizer, var, last, steps, exported, restored>>
    /\ UNCHANGED gvars

\* The trust ratio of the step is a finite number.
Finite(self, grad, v) ==
    LET c == update_coefficients(self)
    IN  compute_trust_ratio(self, grad, v, c.eeta, c.epsilon, c.weight_decay).trust_ratio[2] # 0

ApplyDense ==
    /\ optimizer # <<>>
    /\ steps < MaxSteps
    /\ \E n \in VarNames :
          /\ slot[n].created
          /\ Representable(optimizer[1], var[n], slot[n].value)
          /\ \E grad \in Grads(var[n]) :
                LET v == [name |-> n, value |-> var[n]]
                    r == _resource_apply_dense(optimizer[1], grad, v, slot[n].value)
                IN  /\ Finite(optimizer[1], grad, v)
                    /\ var' = [var EXCEPT ![n] = r.var]
                    /\ slot' = [slot EXCEPT ![n].value = r.accum]
                    /\ raised' = r.raised
                    /\ last' = [name |-> n, grad |-> grad,
                                var |-> var[n], accum |-> slot[n].value,
                                raised |-> r.raised, trust_ratio |-> r.trust_ratio, grad_out |-> r.grad]
    /\ steps' = steps + 1
    /\ UNCHANGED <<optimizer, exported, restored>>
    /\ UNCHANGED gvars

ApplySparse ==
    /\ optimizer # <<>>
    /\ \E n \in VarNames :
          /\ slot[n].created
          /\ \E grad \in Grads(var[n]) :
                LET v == [name |-> n, value |-> var[n]]
                    r == _resource_apply_sparse(optimizer[1], grad, v, slot[n].value)
                IN  /\ var' = [var EXCEPT ![n] = r.var]
                    /\ slot' = [slot EXCEPT ![n].value = r.accum]
                    /\ raised' = r.raised
    /\ UNCHANGED <<optimizer, last, steps, exported, restored>>
    /\ UNCHANGED gvars

GetConfig ==
    /\ optimizer # <<>>
    /\ exported' = <<get_config(optimizer[1])>>
    /\ raised' = "none"
    /\ UNCHANGED <<optimizer, var, slot, last, steps, restored>>
    /\ UNCHANGED gvars

FromConfig ==
    /\ exported # <<>>
    /\ LET r == from_config(exported[1])
       IN  /\ restored' = IF r.raised = "none" THEN <<r.self>> ELSE <<>>
           /\ raised' = r.raised
    /\ UNCHANGED <<optimizer, var, slot, last, steps, exported>>
    /\ UNCHANGED gvars

Next ==
    \/ Construct
    \/ CreateSlots
    \/ ApplyDense
    \/ ApplySparse
    \/ GetConfig
    \/ FromConfig

Spec == Init /\ [][Next]_vars

(***************************************************************************)
(* The gather: a hidden tensor and valid positions are drawn, and the      *)
(* layer GatherSubsetOutput is called on them once.                        *)
(***************************************************************************)
Shapes ==
    {<<b, s, h, m>> \in (1..MaxLookups) \X (1..MaxSeqLength) \X {1, MaxHidden}
                        \X (1..MaxLookups) : b * m <= MaxLookups}

InitGather ==
    /\ optimizer = <<>>
    /\ var = (W :> <<Zero>>) @@ (BN :> <<Zero>>)
    /\ slot = [n \in VarNames |-> NoSlot]
    /\ raised = "none"
    /\ last = NoStep
    /\ steps = 0
    /\ exported = <<>>
    /\ restored = <<>>
    /\ \E d \in Shapes :
          /\ hidden = Sequential(<<d[1], d[2], d[3]>>)
          /\ positions \in {[shape |-> <<d[1], d[4]>>, data |-> p] :
                               p \in [1..(d[1] * d[4]) -> 0..(d[2] - 1)]}
    /\ gathered = <<>>

\* GatherSubsetOutput.call
GatherCall ==
    /\ gathered = <<>>
    /\ gathered' = <<gather_positions(hidden, positions)>>
    /\ UNCHANGED <<hidden, positions>>
    /\ UNCHANGED ovars

NextGather == GatherCall

SpecGather == InitGather /\ [][NextGather]_vars

(***************************************************************************)
(* Properties of the gather.                                               *)
(***************************************************************************)
\* Entry [b, s, h] of a tensor of three dimensions, the indices from 0.
At3(t, b, s, h) == t.data[(b * t.shape[2] + s) * t.shape[3] + h + 1]

\* Entry [b, m] of a tensor of two dimensions, the indices from 0.
At2(t, b, m) == t.data[b * t.shape[2] + m + 1]

\* C1: for a hidden tensor of shape (B, S, H) and positions of shape (B, M)
\* with entries in [0, S), the result has shape (B, M, H) and
\* output[b, m, :] = hidden[b, positions[b, m], :] for every b and m.
C1_Gather ==
    gathered # <<>> =>
        LET B == hidden.shape[1]
            H == hidden.shape[3]
            M == positions.shape[2]
            output == gathered[1]
        IN  /\ output.shape = <<B, M, H>>
            /\ Len(output.data) = B * M * H
            /\ \A b \in 0..(B - 1), m \in 0..(M - 1), h \in 0..(H - 1) :
                  At3(output, b, m, h) = At3(hidden, b, At2(positions, b, m), h)

\* The end-to-end scenario: B = 2, S = 4, H = 3, the values 0..23, the
\* positions [[0, 2], [1, 3]]; the output holds hidden[0, 0], hidden[0, 2],
\* hidden[1, 1] and hidden[1, 3].
C1_Witness ==
    /\ hidden = Sequential(<<2, 4, 3>>)
    /\ positions = [shape |-> <<2, 2>>, data |-> <<0, 2, 1, 3>>]
    /\ gathered = <<[shape |-> <<2, 2, 3>>,
                     data  |-> <<0, 1, 2, 6, 7, 8, 15, 16, 17, 21, 22, 23>>]>>

(***************************************************************************)
(* Properties of the optimizer.                                            *)
(***************************************************************************)
\* The optimizer built, and the last dense step that returned.
Self == optimizer[1]

Stepped == optimizer # <<>> /\ last # NoStep /\ last.raised = "none"

\* name's base name is matched by re.search against a pattern of the list.
ExcludedBy(list, name) ==
    /\ ~list.is_none
    /\ \E i \in DOMAIN list.items :
          /\ ~Malformed(list.items[i])
          /\ re_search(list.items[i], _get_variable_name(name))

IsZeroTensor(t) == \A i \in DOMAIN t : t[i] = Zero

\* The arguments of the end-to-end optimizer scenario.
ScenarioArgs ==
    [DefaultArgs EXCEPT !.learning_rate = Q(1, 10), !.momentum = Zero,
                        !.eeta = One, !.weight_decay = Zero, !.epsilon = Zero]

InScenario ==
    /\ optimizer = <<__init__(ScenarioArgs).self>>
    /\ last.name = W
    /\ last.var = <<Q(4, 1)>>
    /\ last.grad = <<One>>
    /\ last.accum = <<Zero>>
    /\ last.raised = "none"

\* C2: in the end-to-end scenario (learning_rate 0.1, momentum 0, eeta 1,
\* weight_decay 0, epsilon 0, no exclusion list; v = 4, g = 1, accumulator 0)
\* one dense step computes the trust ratio 4, leaves the accumulator at 0.4
\* and the variable at 3.6, the epsilon of the denominator being 0.
C2_EndToEndScenario ==
    InScenario =>
        /\ Self.epsilon = Zero
        /\ last.trust_ratio = Q(4, 1)
        /\ slot[W].value = <<Q(2, 5)>>
        /\ var[W] = <<Q(18, 5)>>

\* What the code computes in the scenario: the epsilon of the denominator is
\* Keras's 1e-7, and the trust ratio 4 / (1 + 1e-7).
C2_ScenarioWithKerasEpsilon ==
    InScenario =>
        /\ Self.epsilon = KerasEpsilon
        /\ last.trust_ratio = Div(Q(4, 1), Add(One, KerasEpsilon))
        /\ Less(last.trust_ratio, Q(4, 1))

\* The trust ratio the claim C3 gives for a dense step.
ExpectedTrustRatio ==
    LET w_norm == L2Norm(last.var)
        g_norm == L2Norm(last.grad)
        wd     == IF ExcludedBy(Self.exclude_from_weight_decay, last.name)
                  THEN Zero ELSE Self.weight_decay
    IN  IF ExcludedBy(Self.exclude_from_layer_adaptation, last.name) THEN One
        ELSE IF w_norm = Zero THEN One
        ELSE IF g_norm = Zero THEN One
        ELSE Div(Mul(Self.eeta, w_norm),
                 Add(Add(g_norm, Mul(wd, w_norm)), Self.epsilon))

\* C3: the trust ratio of a dense step is 1 when the variable's norm is 0,
\* when the norm of the raw gradient is 0, and when the variable is excluded
\* from layer adaptation; otherwise it is
\* eeta * w_norm / (g_norm + weight_decay * w_norm + epsilon), weight_decay
\* being 0 for a variable excluded from weight decay.
C3_TrustRatio == Stepped => last.trust_ratio = ExpectedTrustRatio

\* A step with a zero raw gradient on a variable of positive norm with weight
\* decay folded in: the gradient that leaves is not zero, the ratio is 1.
C3_Witness ==
    /\ Stepped
    /\ ~ExcludedBy(Self.exclude_from_layer_adaptation, last.name)
    /\ IsZeroTensor(last.grad)
    /\ ~IsZeroTensor(last.var)
    /\ ~IsZeroTensor(last.grad_out)
    /\ last.trust_ratio = One

\* C4: the gradient that compute_trust_ratio returns and the momentum update
\* takes is the raw gradient for a variable excluded from weight decay or
\* from layer adaptation, and grad + weight_decay * var for a variable that
\* matches neither list.
C4_WeightDecayExclusion ==
    Stepped =>
        LET excluded == \/ ExcludedBy(Self.exclude_from_weight_decay, last.name)
                        \/ ExcludedBy(Self.exclude_from_layer_adaptation, last.name)
            g        == IF excluded THEN last.grad
                        ELSE TAdd(last.grad, TScale(Self.weight_decay, last.var))
        IN  /\ last.grad_out = g
            /\ slot[last.name].value =
                   TAdd(TScale(Self.momentum, last.accum),
                        TScale(Mul(Self.learning_rate, last.trust_ratio), g))

C4_Witness ==
    /\ Stepped
    /\ ExcludedBy(Self.exclude_from_weight_decay, last.name)
    /\ ~ExcludedBy(Self.exclude_from_layer_adaptation, last.name)
    /\ Self.weight_decay # Zero
    /\ ~IsZeroTensor(last.var)
    /\ ~IsZeroTensor(last.grad)
    /\ last.grad_out = last.grad

\* C5: a sparse-gradient step raises NotImplementedError and leaves every
\* variable and every slot as it was; a variable or an existing accumulator
\* changes only in a dense step.
C5_SparseRaises ==
    [][/\ ApplySparse => (raised' = "NotImplementedError" /\ var' = var /\ slot' = slot)
       /\ (\/ var' # var
           \/ \E n \in VarNames : slot[n].created /\ slot'[n] # slot[n])
          => steps' = steps + 1]_vars

\* A sparse step was refused on an optimizer whose accumulators are not zero.
C5_Witness ==
    /\ raised = "NotImplementedError"
    /\ steps > 0
    /\ \E n \in VarNames : slot[n].created /\ ~IsZeroTensor(slot[n].value)

NoMalformedPattern(self) ==
    /\ \A i \in DOMAIN self.exclude_from_weight_decay.items :
          ~Malformed(self.exclude_from_weight_decay.items[i])
    /\ \A i \in DOMAIN self.exclude_from_layer_adaptation.items :
          ~Malformed(self.exclude_from_layer_adaptation.items[i])

\* C6: no optimizer holds a malformed exclusion pattern (construction fails
\* on one), and no dense step fails because of a pattern.
C6_PatternsFailAtConstruction ==
    /\ optimizer # <<>> => NoMalformedPattern(Self)
    /\ last.raised # "re.error"

\* The dense update of self on variable n, from the current values.
DenseUpdate(self, n, grad) ==
    _resource_apply_dense(self, grad, [name |-> n, value |-> var[n]], slot[n].value)

Comparable(self, n, grad) ==
    /\ Representable(self, var[n], slot[n].value)
    /\ Finite(self, grad, [name |-> n, value |-> var[n]])

\* C7: the export holds the learning rate, the weight decay rate, the decay,
\* the momentum, eeta, epsilon and m_dtype of the optimizer, and the
\* optimizer rebuilt from it applies the same dense update as the original
\* (one whose patterns all compile) from the same variable, accumulator and
\* gradient.
C7_ConfigRoundTrip ==
    /\ exported # <<>> =>
          /\ exported[1].learning_rate = Self.learning_rate
          /\ exported[1].weight_decay = Self.weight_decay
          /\ exported[1].decay = Self.decay
          /\ exported[1].momentum = Self.momentum
          /\ exported[1].eeta = Self.eeta
          /\ exported[1].epsilon = Self.epsilon
          /\ exported[1].m_dtype = Self.m_dtype
    /\ (restored # <<>> /\ NoMalformedPattern(Self)) =>
          \A n \in VarNames :
              slot[n].created =>
                  \A grad \in Grads(var[n]) :
                      (Comparable(Self, n, grad) /\ Comparable(restored[1], n, grad))
                          => DenseUpdate(restored[1], n, grad) = DenseUpdate(Self, n, grad)

\* C8: with momentum 0 a dense step takes the variable to
\* v - learning_rate * trust_ratio * g, g being the gradient returned by
\* compute_trust_ratio, and the step of the same optimizer with use_nesterov
\* flipped gives the same variable.
C8_NesterovToggle ==
    (Stepped /\ Self.momentum = Zero) =>
        LET flipped == [Self EXCEPT !.use_nesterov = ~@]
            v       == [name |-> last.name, value |-> last.var]
        IN  /\ var[last.name] =
                   TSub(last.var,
                        TScale(Mul(Self.learning_rate, last.trust_ratio), last.grad_out))
            /\ _resource_apply_dense(flipped, last.grad, v, last.accum).var
                   = var[last.name]

C8_Witness ==
    /\ Stepped
    /\ Self.momentum = Zero
    /\ Self.use_nesterov
    /\ ~IsZeroTensor(last.accum)
    /\ ~IsZeroTensor(last.grad_out)
    /\ last.trust_ratio # One

\* C9: a slot is zero when it is created; with use_nesterov off a dense step
\* leaves the accumulator at momentum * accum + (learning_rate * trust_ratio)
\* * g and the variable at v - accum; a dense step on one variable changes
\* no other variable, no other slot and no hyperparameter.
C9_MomentumRecurrence ==
    /\ [](\A n \in VarNames : (slot[n].created /\ steps = 0) => IsZeroTensor(slot[n].value))
    /\ []((Stepped /\ ~Self.use_nesterov) =>
            /\ slot[last.name].value =
                   TAdd(TScale(Self.momentum, last.accum),
                        TScale(Mul(Self.learning_rate, last.trust_ratio), last.grad_out))
            /\ var[last.name] = TSub(last.var, slot[last.name].value))
    /\ [][/\ \A n \in VarNames :
                (~slot[n].created /\ slot'[n].created) =>
                    (IsZeroTensor(slot'[n].value) /\ Len(slot'[n].value) = Len(var[n]))
          /\ steps' = steps + 1 =>
                /\ optimizer' = optimizer
                /\ \A n \in VarNames \ {last'.name} :
                      var'[n] = var[n] /\ slot'[n] = slot[n]]_vars

C9_Witness ==
    /\ Stepped
    /\ ~Self.use_nesterov
    /\ Self.momentum # Zero
    /\ ~IsZeroTensor(last.accum)
    /\ ~IsZeroTensor(last.grad_out)
    /\ \E n \in VarNames \ {last.name} : ~IsZeroTensor(slot[n].value)

\* The weights the trust ratio is compared over: of the shape of the last
\* step's variable, of norm 2, 4, 5, 6 for a scalar and 5, 10 for a vector.
Weights(value) ==
    IF Len(value) = 1 THEN {<<Q(2, 1)>>, <<Q(4, 1)>>, <<Q(5, 1)>>, <<Q(6, 1)>>}
    ELSE {<<Q(3, 1), Q(4, 1)>>, <<Q(6, 1), Q(8, 1)>>}

\* The trust ratio compute_trust_ratio returns for the last step's variable
\* holding the weight w, the gradient and the hyperparameters being the same.
TrustRatioAt(w) ==
    LET c == update_coefficients(Self)
    IN  compute_trust_ratio(Self, last.grad, [name |-> last.name, value |-> w],
                            c.eeta, c.epsilon, c.weight_decay).trust_ratio

\* The last step was layer-adapted, with a weight and a gradient of positive
\* norm, weight_decay >= 0 and eeta > 0.
Adapted ==
    /\ Stepped
    /\ ~ExcludedBy(Self.exclude_from_layer_adaptation, last.name)
    /\ Greater(L2Norm(last.var), Zero)
    /\ Greater(L2Norm(last.grad), Zero)
    /\ ~Less(Self.weight_decay, Zero)
    /\ Greater(Self.eeta, Zero)

\* The trust ratio of the last step against the ratio at every other weight.
Increasing ==
    \A w \in Weights(last.var) :
        /\ Less(L2Norm(last.var), L2Norm(w)) => Less(last.trust_ratio, TrustRatioAt(w))
        /\ Less(L2Norm(w), L2Norm(last.var)) => Less(TrustRatioAt(w), last.trust_ratio)

\* C10 as claimed: for a layer-adapted variable, with g_norm > 0,
\* weight_decay >= 0, eeta > 0 and any epsilon, the trust ratio is strictly
\* greater at the greater of two positive weight norms.
C10_MonotoneForAnyEpsilon == Adapted => Increasing

\* C10 as amended: the same, for every epsilon with g_norm + epsilon > 0 (in
\* particular for every epsilon >= 0).
C10_Monotone ==
    (Adapted /\ Greater(Add(L2Norm(last.grad), Self.epsilon), Zero)) => Increasing

\* A layer-adapted step with weight decay, a negative epsilon and a gradient
\* whose norm exceeds -epsilon.
C10_Witness ==
    /\ Adapted
    /\ Less(Self.epsilon, Zero)
    /\ Greater(Add(L2Norm(last.grad), Self.epsilon), Zero)
    /\ Self.weight_decay # Zero
    /\ ~IsZeroTensor(last.var)

====
